---- MODULE Spec2Model ----
(***************************************************************************)
(* A model of s3-multipart-uploader.py: the chunk plan, the resolution of  *)
(* an existing multipart upload (with its paginated part listing), the     *)
(* consistency check of a resumed upload, the sequential transfer of the   *)
(* parts, the completion request and the abort operation, run against a   *)
(* remote store.                                                           *)
(*                                                                         *)
(* One action is one stretch of the program between two remote calls.      *)
(* Python's None is the empty tuple <<>> and a present value v is <<v>>.    *)
(* Python's ints are unbounded, so no width is modelled.  math.ceil(a / b)  *)
(* is a float division in the source; it is exact for files below 2^53     *)
(* bytes and is modelled as the integer ceiling.                           *)
(***************************************************************************)
EXTENDS Integers, Sequences, FiniteSets, TLC

(***************************************************************************)
(* The S3 limits of the source, with their values.                         *)
(***************************************************************************)
MAX_ALLOWED_PART_COUNT_S3 == 10000
MIN_REQUIRED_PART_SIZE_S3 == 5242880

(***************************************************************************)
(* The limits the state machine runs with.  The source reads the two       *)
(* limits only to compare with them and to ceil-divide by the part count,  *)
(* so the planner below takes them as parameters and the state machine     *)
(* runs it with small stand-ins: a file that needs more than 10000 parts   *)
(* of 5 MiB is out of reach of an explicit-state check.                    *)
(***************************************************************************)
MaxPartCount == 3
MinPartSize == 2

\* Sizes the local file can have, and explicit --part-size values.
MaxFileSize == 8
MaxPartSizeArg == 4
\* Runs of the program in one behaviour.
MaxRuns == 2
\* Parts a session found at the start has already accepted, and sessions
\* found at the start.
MaxListed == 3
MaxInitSessions == 2

DestKey == "k1"
OtherKey == "k2"
Keys == {DestKey, OtherKey}

None == <<>>
Some(v) == <<v>>

Max(a, b) == IF a >= b THEN a ELSE b
Min(a, b) == IF a <= b THEN a ELSE b

RECURSIVE SumSizes(_)
\* sum([part.size for part in parts])
SumSizes(ps) ==
    IF ps = <<>> THEN 0 ELSE ps[1].size + SumSizes(Tail(ps))

\* math.ceil(a / b) for a >= 0 and b # 0 (b < 0: a negative --part-size).
Ceil(a, b) ==
    IF b > 0 THEN -((-a) \div b) ELSE -(a \div (-b))

(***************************************************************************)
(* _determine_part_count, with the two limits as parameters.  A part size  *)
(* that is None or 0 is falsy ("if not self.part_size_in_bytes") and is    *)
(* replaced by the auto-derived one.  The result is the plan and whether   *)
(* the method ended the process with exit(1).                              *)
(***************************************************************************)
\* A planner that rounds the quotient down.
AutoPartSizeFloor(fsize, maxCount, minSize) ==
    Max(fsize \div maxCount, minSize)

AutoPartSize(fsize, maxCount, minSize) ==
    Max(Ceil(fsize, maxCount), minSize)

IsUnset(psize) ==
    psize = None \/ psize = Some(0)

DeterminePartCount(fsize, psize, maxCount, minSize) ==
    LET size == IF IsUnset(psize) THEN AutoPartSize(fsize, maxCount, minSize)
                ELSE psize[1]
        count == Ceil(fsize, size)
    IN  [part_size_in_bytes |-> size,
         part_count |-> count,
         exit1 |-> (size < minSize) \/ (count > maxCount)]

(***************************************************************************)
(* The remote store.  uploads is the answer of list_multipart_uploads: a   *)
(* session is [UploadId, Key, Parts], Parts its part listing in the order  *)
(* list_parts returns it, each part [number, size, etag].  objects holds   *)
(* the keys that have an object.  file_size is the local file's size now.  *)
(* file_changed and built_from are history: that the file was modified     *)
(* since the start, and <<UploadId, filesize, part size>> for the sessions *)
(* that runs of this program with that one plan created and filled from    *)
(* the file as it is now.                                                  *)
(***************************************************************************)
VARIABLES uploads, objects, file_size, file_changed, built_from

(***************************************************************************)
(* The program.  pc is the position of the run; args the command line;     *)
(* filesize, part_size_in_bytes, part_count the fields of                  *)
(* S3MultipartUploader; the others the locals of check_existing_uploads,   *)
(* _continue_upload, _upload_parts and _finalize_upload.                   *)
(* calls (the remote calls of this run, in order), ranges (the byte ranges *)
(* _upload_parts computed), final_parts (the parts _finalize_upload got),  *)
(* warned (it logged the size mismatch) and runs are history.              *)
(***************************************************************************)
VARIABLES pc, args, filesize, part_size_in_bytes, part_count,
          match, parts, is_truncated, next_part_number_marker,
          existing_parts, start_index, part_index, uploaded_parts, upload_id,
          calls, ranges, final_parts, warned, runs

remote == <<uploads, objects>>
planned == <<filesize, part_size_in_bytes, part_count>>
resolver == <<match, parts, is_truncated, next_part_number_marker>>
transfer == <<existing_parts, start_index, part_index, uploaded_parts, upload_id>>
history == <<ranges, final_parts, warned>>
vars == <<uploads, objects, file_size, file_changed, built_from, pc, args, planned, resolver,
          transfer, calls, history, runs>>

\* Positions at which no run is in progress.
Stopped == {"idle", "returned", "exit1", "exit3", "raised", "killed"}

\* The tag upload_part answers with; a part's tag is fixed by its content.
ETagOf(number, size) == <<number, size>>

Part(number, size) == [number |-> number, size |-> size, etag |-> ETagOf(number, size)]

\* The UploadId create_multipart_upload answers with: new in every run.
FreshId(n) == "r" \o ToString(n)

\* The position in uploads of the session with this id, 0 if there is none.
IndexOf(id) ==
    IF \E i \in 1..Len(uploads) : uploads[i].UploadId = id
    THEN CHOOSE i \in 1..Len(uploads) : uploads[i].UploadId = id
    ELSE 0

(***************************************************************************)
(* list_parts of the remote store: a page of the listing L after the       *)
(* position the marker names, n parts long (the store chooses n), with     *)
(* the marker of the next page and whether parts remain.                   *)
(***************************************************************************)
ListPartsPage(L, marker, n) ==
    LET from == IF marker = None THEN 0 ELSE marker[1]
    IN  [Parts |-> SubSeq(L, from + 1, from + n),
         IsTruncated |-> from + n < Len(L),
         NextPartNumberMarker |-> from + n]

PageSizes(L, marker) ==
    LET from == IF marker = None THEN 0 ELSE marker[1]
    IN  IF from >= Len(L) THEN {0} ELSE 1..(Len(L) - from)

\* upload_part of the remote store: the part replaces the one of its number
\* or is listed after the others.
PutPart(L, p) ==
    IF \E i \in 1..Len(L) : L[i].number = p.number
    THEN [i \in 1..Len(L) |-> IF L[i].number = p.number THEN p ELSE L[i]]
    ELSE Append(L, p)

RemoveAt(s, i) == SubSeq(s, 1, i - 1) \o SubSeq(s, i + 1, Len(s))

\* The parts in the order listed, not sorted.
AsListed(ps) == ps

(***************************************************************************)
(* sorted(upload.parts, key=lambda part: part.number): a stable sort.      *)
(***************************************************************************)
RECURSIVE InsertByNumber(_, _)
InsertByNumber(sorted, p) ==
    IF sorted = <<>> THEN <<p>>
    ELSE IF sorted[Len(sorted)].number <= p.number THEN Append(sorted, p)
    ELSE Append(InsertByNumber(SubSeq(sorted, 1, Len(sorted) - 1), p),
                sorted[Len(sorted)])

RECURSIVE SortedByNumber(_)
SortedByNumber(ps) ==
    IF ps = <<>> THEN <<>>
    ELSE InsertByNumber(SortedByNumber(SubSeq(ps, 1, Len(ps) - 1)), ps[Len(ps)])

(***************************************************************************)
(* The sanity check of _continue_upload, from the 0-based index on: the    *)
(* first part with an unexpected number, or with another size than the     *)
(* plan's while not the last of the existing parts, ends the process with  *)
(* exit(3).                                                                *)
(***************************************************************************)
\* A check of the part numbers alone.
RECURSIVE SanityCheckNumbersOnly(_, _, _)
SanityCheckNumbersOnly(existing, index, psize) ==
    IF index >= Len(existing) THEN "ok"
    ELSE IF existing[index + 1].number # index + 1 THEN "exit3"
    ELSE SanityCheckNumbersOnly(existing, index + 1, psize)

\* A check of the part sizes alone.
RECURSIVE SanityCheckSizesOnly(_, _, _)
SanityCheckSizesOnly(existing, index, psize) ==
    IF index >= Len(existing) THEN "ok"
    ELSE IF existing[index + 1].size # psize /\ index # Len(existing) - 1 THEN "exit3"
    ELSE SanityCheckSizesOnly(existing, index + 1, psize)

\* A check that lets no part have another size, the last one included.
RECURSIVE SanityCheckEverySize(_, _, _)
SanityCheckEverySize(existing, index, psize) ==
    IF index >= Len(existing) THEN "ok"
    ELSE IF existing[index + 1].number # index + 1 THEN "exit3"
    ELSE IF existing[index + 1].size # psize THEN "exit3"
    ELSE SanityCheckEverySize(existing, index + 1, psize)

RECURSIVE SanityCheck(_, _, _)
SanityCheck(existing, index, psize) ==
    IF index >= Len(existing) THEN "ok"
    ELSE LET part == existing[index + 1]
             expected_part_number == index + 1
         IN  IF part.number # expected_part_number THEN "exit3"
             ELSE IF part.size # psize /\ index # Len(existing) - 1 THEN "exit3"
             ELSE SanityCheck(existing, index + 1, psize)

(***************************************************************************)
(* The byte range _upload_parts computes for a 0-based part index, and the *)
(* number of bytes file.seek(start_offset); file.read(part size) returns   *)
(* from a file of cur bytes.                                               *)
(***************************************************************************)
StartOffset(part_idx, psize, fsize) == Min(part_idx * psize, fsize - 1)

\* An end offset that is not cut at the end of the file.
EndOffsetUnclamped(part_idx, psize, fsize) == (part_idx + 1) * psize - 1

EndOffset(part_idx, psize, fsize) == Min((part_idx + 1) * psize - 1, fsize - 1)

ThisPartSize(part_idx, psize, fsize) ==
    EndOffset(part_idx, psize, fsize) - StartOffset(part_idx, psize, fsize) + 1

BytesRead(start_offset, psize, cur) == Max(0, Min(psize, cur - start_offset))

\* The "Parts" of the complete_multipart_upload request.
CompletedParts(ps) ==
    [i \in 1..Len(ps) |-> [PartNumber |-> ps[i].number, ETag |-> ps[i].etag]]

\* A filter that takes the upload of the id whatever its key.
MatchingAnyKey(ups, key, id) ==
    IF id # "" THEN SelectSeq(ups, LAMBDA u : u.UploadId = id)
    ELSE SelectSeq(ups, LAMBDA u : u.Key = key)

\* The uploads that check_existing_uploads keeps: those of the key and, with
\* --upload_id, of that id.
Matching(ups, key, id) ==
    LET for_key == SelectSeq(ups, LAMBDA u : u.Key = key)
    IN  IF id # "" THEN SelectSeq(for_key, LAMBDA u : u.UploadId = id)
        ELSE for_key

\* A probe that never finds the object.
IsExistingNever(objs, key) == FALSE

\* _is_existing_in_s3: True when head_object answers, False when it raises
\* ClientError, as it does for a key without an object.
IsExisting(objs, key) == key \in objs

\* A transfer that starts over at the first part.
StartIndexZero(existing) == 0

\* start_index = len(existing_parts)
StartIndex(existing) == Len(existing)

\* One remote call of the run, as calls records it.
Call(op, id, arg) == [op |-> op, id |-> id, arg |-> arg]

\* parts = new_parts: the page replaces what was collected.
ExtendOverwriting(ps, new_parts) == new_parts

\* parts.extend(new_parts)
Extend(ps, new_parts) == ps \o new_parts

(***************************************************************************)
(* S3MultipartUploader.__init__, for the command line a: the size of the   *)
(* file is read, the plan is fixed, and a plan outside the limits ends the *)
(* process with exit(1).  S3MultiPartCli then calls the operation the     *)
(* command line names: upload or abort.                                    *)
(***************************************************************************)
Construct(a) ==
    /\ pc \in Stopped
    /\ args' = a
    /\ LET p == DeterminePartCount(file_size, a.part_size, MaxPartCount, MinPartSize)
       IN  /\ filesize' = file_size
           /\ part_size_in_bytes' = p.part_size_in_bytes
           /\ part_count' = p.part_count
           /\ pc' = IF p.exit1 THEN "exit1" ELSE a.operation
    /\ match' = None
    /\ parts' = <<>>
    /\ is_truncated' = FALSE
    /\ next_part_number_marker' = None
    /\ existing_parts' = <<>>
    /\ start_index' = 0
    /\ part_index' = 0
    /\ uploaded_parts' = <<>>
    /\ upload_id' = ""
    /\ calls' = <<>>
    /\ ranges' = <<>>
    /\ final_parts' = <<>>
    /\ warned' = FALSE
    /\ runs' = runs + 1
    /\ UNCHANGED <<uploads, objects, file_size, file_changed, built_from>>

(***************************************************************************)
(* upload, first lines, with _is_existing_in_s3: head_object answers for   *)
(* an existing object and raises ClientError otherwise.                    *)
(***************************************************************************)
IsExistingInS3 ==
    /\ pc = "upload"
    /\ calls' = Append(calls, Call("HeadObject", "", None))
    /\ pc' = IF IsExisting(objects, DestKey) THEN "returned" ELSE "check_existing"
    /\ UNCHANGED <<uploads, objects, file_size, file_changed, built_from, args, planned,
                   resolver, transfer, history, runs>>

(***************************************************************************)
(* check_existing_uploads up to the choice of the upload to continue.      *)
(***************************************************************************)
CheckExistingUploads ==
    /\ pc = "check_existing"
    /\ calls' = Append(calls, Call("ListSessions", "", None))
    /\ LET matching == Matching(uploads, DestKey, args.upload_id)
           num_matches == Len(matching)
       IN  IF num_matches = 0
           THEN /\ pc' = IF args.upload_id # "" THEN "exit1" ELSE "create"
                /\ match' = None
           ELSE IF num_matches > 1
           THEN /\ pc' = "exit1"
                /\ match' = None
           ELSE /\ pc' = "load_parts"
                /\ match' = Some(matching[1].UploadId)
    /\ UNCHANGED <<uploads, objects, file_size, file_changed, built_from, args, planned,
                   parts, is_truncated, next_part_number_marker, transfer,
                   history, runs>>

(***************************************************************************)
(* _load_parts and the caller's parts.extend: one list_parts call with the *)
(* marker given (None: no PartNumberMarker is sent), whose page the remote *)
(* store chooses.  When the page is not truncated check_existing_uploads   *)
(* returns the upload and upload asks the user.                            *)
(***************************************************************************)
LoadParts(part_number_marker) ==
    LET listing == uploads[IndexOf(match[1])].Parts
    IN  \E n \in PageSizes(listing, part_number_marker) :
            LET parts_response == ListPartsPage(listing, part_number_marker, n)
            IN  /\ calls' = Append(calls, Call("ListChunks", match[1], part_number_marker))
                /\ parts' = Extend(parts, parts_response.Parts)
                /\ is_truncated' = parts_response.IsTruncated
                /\ next_part_number_marker' = Some(parts_response.NextPartNumberMarker)
                /\ pc' = IF parts_response.IsTruncated THEN "load_more" ELSE "prompt"
                /\ UNCHANGED <<uploads, objects, file_size, file_changed, built_from, args,
                               planned, match, transfer, history, runs>>

LoadPartsFirst ==
    /\ pc = "load_parts"
    /\ LoadParts(None)

\* A loop that asks for every page without a marker.
LoadPartsNextWithoutMarker ==
    /\ pc = "load_more"
    /\ is_truncated
    /\ LoadParts(None)

LoadPartsNext ==
    /\ pc = "load_more"
    /\ is_truncated
    /\ LoadParts(next_part_number_marker)

(***************************************************************************)
(* The three questions of upload: continue, else delete (not implemented:  *)
(* an exception), else restart with a new upload, else return.             *)
(***************************************************************************)
Answers == {"continue", "delete", "restart", "decline"}

\* Questions whose answer "restart" aborts the upload found.
PromptRestartAborting(answer) ==
    /\ pc = "prompt"
    /\ pc' = CASE answer = "continue" -> "continue_upload"
               [] answer = "delete" -> "raised"
               [] answer = "restart" -> "create"
               [] OTHER -> "returned"
    /\ IF answer = "restart"
       THEN /\ uploads' = RemoveAt(uploads, IndexOf(match[1]))
            /\ calls' = Append(calls, Call("AbortSession", match[1], None))
       ELSE UNCHANGED <<uploads, calls>>
    /\ UNCHANGED <<objects, file_size, file_changed, built_from, args, planned,
                   resolver, transfer, history, runs>>

Prompt(answer) ==
    /\ pc = "prompt"
    /\ pc' = CASE answer = "continue" -> "continue_upload"
               [] answer = "delete" -> "raised"
               [] answer = "restart" -> "create"
               [] OTHER -> "returned"
    /\ UNCHANGED <<uploads, objects, file_size, file_changed, built_from, args, planned,
                   resolver, transfer, calls, history, runs>>

\* A _continue_upload that aborts the session it refuses to continue.
ContinueUploadDiscarding ==
    /\ pc = "continue_upload"
    /\ LET existing == SortedByNumber(parts)
       IN  IF SanityCheck(existing, 0, part_size_in_bytes) = "exit3"
           THEN /\ pc' = "exit3"
                /\ uploads' = RemoveAt(uploads, IndexOf(match[1]))
                /\ calls' = Append(calls, Call("AbortSession", match[1], None))
                /\ UNCHANGED transfer
           ELSE /\ pc' = "upload_parts"
                /\ existing_parts' = existing
                /\ start_index' = StartIndex(existing)
                /\ part_index' = StartIndex(existing)
                /\ uploaded_parts' = <<>>
                /\ upload_id' = match[1]
                /\ UNCHANGED <<uploads, calls>>
    /\ UNCHANGED <<objects, file_size, file_changed, built_from, args, planned,
                   resolver, history, runs>>

(***************************************************************************)
(* _continue_upload up to the call of _upload_parts.                       *)
(***************************************************************************)
ContinueUpload ==
    /\ pc = "continue_upload"
    /\ LET existing == SortedByNumber(parts)
       IN  IF SanityCheck(existing, 0, part_size_in_bytes) = "exit3"
           THEN /\ pc' = "exit3"
                /\ UNCHANGED transfer
           ELSE /\ pc' = "upload_parts"
                /\ existing_parts' = existing
                /\ start_index' = StartIndex(existing)
                /\ part_index' = StartIndex(existing)
                /\ uploaded_parts' = <<>>
                /\ upload_id' = match[1]
    /\ UNCHANGED <<uploads, objects, file_size, file_changed, built_from, args, planned,
                   resolver, calls, history, runs>>

(***************************************************************************)
(* _create_multipart_upload (compute_md5 is False) and the start of        *)
(* _upload_parts at index 0.                                               *)
(***************************************************************************)
CreateMultipartUpload ==
    /\ pc = "create"
    /\ LET id == FreshId(runs)
       IN  /\ uploads' = Append(uploads,
                   [UploadId |-> id, Key |-> DestKey, Parts |-> <<>>])
           /\ built_from' = built_from \cup {<<id, filesize, part_size_in_bytes>>}
           /\ upload_id' = id
           /\ calls' = Append(calls, Call("CreateSession", id, None))
    /\ existing_parts' = <<>>
    /\ start_index' = 0
    /\ part_index' = 0
    /\ uploaded_parts' = <<>>
    /\ pc' = "upload_parts"
    /\ UNCHANGED <<objects, file_size, file_changed, args, planned, resolver,
                   history, runs>>

\* A round that sends whatever the read returned, without comparing lengths.
UploadPartUnchecked ==
    /\ pc = "upload_parts"
    /\ part_index < part_count
    /\ LET start_offset == StartOffset(part_index, part_size_in_bytes, filesize)
           end_offset == EndOffset(part_index, part_size_in_bytes, filesize)
           this_part_size == ThisPartSize(part_index, part_size_in_bytes, filesize)
           part_number == part_index + 1
           len_data == BytesRead(start_offset, part_size_in_bytes, file_size)
           i == IndexOf(upload_id)
       IN  /\ ranges' = Append(ranges, [start |-> start_offset, end |-> end_offset,
                                        size |-> this_part_size])
           /\ calls' = Append(calls, Call("SendChunk", upload_id,
                                          <<part_number, len_data>>))
           /\ uploads' = [uploads EXCEPT
                  ![i].Parts = PutPart(@, Part(part_number, len_data))]
           /\ built_from' = {b \in built_from :
                  b[1] = upload_id => b = <<upload_id, filesize, part_size_in_bytes>>}
           /\ uploaded_parts' = Append(uploaded_parts, Part(part_number, len_data))
           /\ part_index' = part_index + 1
           /\ pc' = pc
    /\ UNCHANGED <<objects, file_size, file_changed, args, planned, resolver,
                   existing_parts, start_index, upload_id, final_parts, warned,
                   runs>>

(***************************************************************************)
(* One round of the loop of _upload_parts: the range, the read from the    *)
(* file as it is now, the exception when the read has another length, the  *)
(* upload_part call and the new UploadedPart.                              *)
(***************************************************************************)
UploadPart ==
    /\ pc = "upload_parts"
    /\ part_index < part_count
    /\ LET start_offset == StartOffset(part_index, part_size_in_bytes, filesize)
           end_offset == EndOffset(part_index, part_size_in_bytes, filesize)
           this_part_size == ThisPartSize(part_index, part_size_in_bytes, filesize)
           part_number == part_index + 1
           len_data == BytesRead(start_offset, part_size_in_bytes, file_size)
           i == IndexOf(upload_id)
       IN  /\ ranges' = Append(ranges, [start |-> start_offset, end |-> end_offset,
                                        size |-> this_part_size])
           /\ IF len_data # this_part_size
              THEN /\ pc' = "raised"
                   /\ UNCHANGED <<uploads, built_from, calls, uploaded_parts, part_index>>
              ELSE /\ calls' = Append(calls, Call("SendChunk", upload_id,
                                                  <<part_number, this_part_size>>))
                   /\ uploads' = [uploads EXCEPT
                          ![i].Parts = PutPart(@, Part(part_number, this_part_size))]
                   /\ built_from' = {b \in built_from :
                          b[1] = upload_id => b = <<upload_id, filesize, part_size_in_bytes>>}
                   /\ uploaded_parts' = Append(uploaded_parts,
                                               Part(part_number, this_part_size))
                   /\ part_index' = part_index + 1
                   /\ pc' = pc
    /\ UNCHANGED <<objects, file_size, file_changed, args, planned, resolver,
                   existing_parts, start_index, upload_id, final_parts, warned,
                   runs>>

\* A comparison that never finds a mismatch.
MismatchNever(fsize, total_bytes) == FALSE

\* _finalize_upload: self.filesize != total_bytes, the condition of the
\* message about the mismatch of sizes.
Mismatch(fsize, total_bytes) == fsize # total_bytes

\* ProgressMeter.log_status ends well: percent = 100 * current / limit divides
\* by the limit, and a limit of 0 is a ZeroDivisionError.
LogStatus(current, limit) == limit # 0

(***************************************************************************)
(* The end of _upload_parts and _finalize_upload, called by upload with    *)
(* the uploaded parts and by _continue_upload with the existing parts      *)
(* followed by the uploaded ones.  Leaving the with block of _upload_parts *)
(* calls ProgressMeter.__exit__ and so log_status, whose exception ends    *)
(* the run before _finalize_upload.  The remote store completes the        *)
(* upload.                                                                 *)
(***************************************************************************)
FinalizeUpload ==
    /\ pc = "upload_parts"
    /\ part_index >= part_count
    /\ IF ~LogStatus(part_index, part_count)
       THEN /\ pc' = "raised"
            /\ UNCHANGED <<uploads, objects, built_from, calls, final_parts, warned>>
       ELSE /\ LET all_parts == existing_parts \o uploaded_parts
                   total_bytes == SumSizes(all_parts)
               IN  /\ final_parts' = all_parts
                   /\ warned' = Mismatch(filesize, total_bytes)
                   /\ calls' = Append(calls, Call("FinalizeSession", upload_id,
                                                  CompletedParts(all_parts)))
            /\ uploads' = RemoveAt(uploads, IndexOf(upload_id))
            /\ objects' = objects \cup {DestKey}
            /\ built_from' = {b \in built_from : b[1] # upload_id}
            /\ pc' = "returned"
    /\ UNCHANGED <<file_size, file_changed, args, planned, resolver, transfer,
                   ranges, runs>>

(***************************************************************************)
(* S3MultiPartCli._upload_file with a namespace that has no part_size.     *)
(* parse_args gives the abort sub-command no --part-size, and the read of  *)
(* args.part_size is an AttributeError before the uploader is constructed. *)
(***************************************************************************)
UploadFileWithoutPartSize(a) ==
    /\ pc \in Stopped
    /\ "part_size" \notin DOMAIN a
    /\ args' = a
    /\ calls' = <<>>
    /\ runs' = runs + 1
    /\ pc' = "raised"
    /\ UNCHANGED <<uploads, objects, file_size, file_changed, built_from, planned,
                   resolver, transfer, history>>

\* A filter that takes the uploads of every key.
AbortMatchingAnyKey(ups, key) == ups

\* abort: the listed uploads of the destination key.  dest_key is a string in
\* every call of the constructor, so "or self.dest_key is None" adds nothing.
AbortMatching(ups, key) == SelectSeq(ups, LAMBDA u : u.Key = key)

\* The store holds the session of the id for the key.
HoldsSession(ups, key, id) ==
    \E i \in 1..Len(ups) : ups[i].UploadId = id /\ ups[i].Key = key

(***************************************************************************)
(* abort.  With --all or --list: list_multipart_uploads, the sessions of   *)
(* the key are printed, and with --all, whether or not --list is given,    *)
(* abort_multipart_upload is called for each of them in turn.  With        *)
(* neither: one abort_multipart_upload for --upload_id, which the store    *)
(* answers with an error when it holds no such session.                    *)
(***************************************************************************)
Abort ==
    /\ pc = "abort"
    /\ IF args.all \/ args.list
       THEN LET matching == AbortMatching(uploads, DestKey)
                aborts == [i \in 1..Len(matching) |->
                              Call("AbortSession", matching[i].UploadId, None)]
            IN  IF args.all
                THEN /\ calls' = Append(calls, Call("ListSessions", "", None)) \o aborts
                     /\ uploads' = SelectSeq(uploads, LAMBDA u :
                            ~\E i \in 1..Len(matching) : matching[i] = u)
                     /\ built_from' = {b \in built_from :
                            \E i \in 1..Len(uploads') : uploads'[i].UploadId = b[1]}
                     /\ pc' = "returned"
                ELSE /\ calls' = Append(calls, Call("ListSessions", "", None))
                     /\ pc' = "returned"
                     /\ UNCHANGED <<uploads, built_from>>
       ELSE /\ calls' = Append(calls, Call("AbortSession", args.upload_id, None))
            /\ IF HoldsSession(uploads, DestKey, args.upload_id)
               THEN /\ uploads' = RemoveAt(uploads, IndexOf(args.upload_id))
                    /\ built_from' = {b \in built_from : b[1] # args.upload_id}
                    /\ pc' = "returned"
               ELSE /\ pc' = "raised"
                    /\ UNCHANGED <<uploads, built_from>>
    /\ UNCHANGED <<objects, file_size, file_changed, args, planned, resolver,
                   transfer, history, runs>>

(***************************************************************************)
(* The process is terminated during a run.  Nothing in the source runs at  *)
(* termination: no handler, no finally, no atexit.                         *)
(***************************************************************************)
Crash ==
    /\ pc \notin Stopped
    /\ pc' = "killed"
    /\ UNCHANGED <<uploads, objects, file_size, file_changed, built_from, args, planned,
                   resolver, transfer, calls, history, runs>>

(***************************************************************************)
(* The local file is modified, at any time, to another size.  No session   *)
(* is then built from the file as it is.                                   *)
(***************************************************************************)
FileChange(n) ==
    /\ ~file_changed
    /\ n # file_size
    /\ file_size' = n
    /\ file_changed' = TRUE
    /\ built_from' = {}
    /\ UNCHANGED <<uploads, objects, pc, args, planned, resolver, transfer, calls,
                   history, runs>>

(***************************************************************************)
(* Command lines, listings and sessions the specifications start from.     *)
(***************************************************************************)
UploadArgs(ids, sizes) ==
    [operation : {"upload"}, upload_id : ids, part_size : sizes]

\* Every --part-size: none, 0, a negative one, and 1..MaxPartSizeArg.
PartSizeArgs == {None} \cup {Some(v) : v \in -1..MaxPartSizeArg}

\* Part listings of at most len parts, in any order, with gaps and repeats,
\* each part of the smallest part size or one byte less.
PartRecords(len) ==
    {Part(n, sz) : n \in 1..(len + 1), sz \in {MinPartSize - 1, MinPartSize}}

Listings(len) ==
    UNION {[1..k -> PartRecords(len)] : k \in 0..len}

\* The sessions list_multipart_uploads can answer with at the start: at most
\* len sessions of other clients, the i-th with UploadId "u<i>".
SessionLists(len, listings) ==
    UNION {{[i \in 1..k |-> [UploadId |-> "u" \o ToString(i), Key |-> ks[i],
                             Parts |-> ls[i]]] :
                ks \in [1..k -> Keys], ls \in [1..k -> listings]} :
           k \in 0..len}

InitProgram ==
    /\ pc = "idle"
    /\ args = [operation |-> "upload", upload_id |-> "", part_size |-> None]
    /\ filesize = 0
    /\ part_size_in_bytes = 0
    /\ part_count = 0
    /\ match = None
    /\ parts = <<>>
    /\ is_truncated = FALSE
    /\ next_part_number_marker = None
    /\ existing_parts = <<>>
    /\ start_index = 0
    /\ part_index = 0
    /\ uploaded_parts = <<>>
    /\ upload_id = ""
    /\ calls = <<>>
    /\ ranges = <<>>
    /\ final_parts = <<>>
    /\ warned = FALSE
    /\ runs = 0

(***************************************************************************)
(* SpecPlan: one upload of a file of any size with any --part-size, to a   *)
(* store that holds nothing for the key.                                   *)
(***************************************************************************)
InitPlan ==
    /\ InitProgram
    /\ uploads = <<>>
    /\ objects = {}
    /\ file_size \in 0..MaxFileSize
    /\ file_changed = FALSE
    /\ built_from = {}

StartPlan ==
    \E a \in UploadArgs({""}, PartSizeArgs) : runs = 0 /\ Construct(a)

NextPlan ==
    \/ StartPlan
    \/ IsExistingInS3
    \/ CheckExistingUploads
    \/ CreateMultipartUpload
    \/ UploadPart
    \/ FinalizeUpload

SpecPlan == InitPlan /\ [][NextPlan]_vars

(***************************************************************************)
(* SpecResume: one upload, with the auto-derived part size, of a file to a *)
(* key for which the store holds one session with any part listing.        *)
(***************************************************************************)
ResumeFileSizes ==
    {MinPartSize + 1, MinPartSize * MaxPartCount - 1}

InitResume ==
    /\ InitProgram
    /\ uploads \in {<<[UploadId |-> "u1", Key |-> DestKey, Parts |-> l]>> :
                        l \in Listings(MaxListed)}
    /\ objects = {}
    /\ file_size \in ResumeFileSizes
    /\ file_changed = FALSE
    /\ built_from = {}

StartResume ==
    \E a \in UploadArgs({""}, {None}) : runs = 0 /\ Construct(a)

NextResume ==
    \/ StartResume
    \/ IsExistingInS3
    \/ CheckExistingUploads
    \/ LoadPartsFirst
    \/ LoadPartsNext
    \/ \E answer \in Answers : Prompt(answer)
    \/ ContinueUpload
    \/ CreateMultipartUpload
    \/ UploadPart
    \/ FinalizeUpload

SpecResume == InitResume /\ [][NextResume]_vars

(***************************************************************************)
(* Spec: runs of the program, one after the other, each with its own       *)
(* command line, against a store that holds sessions of other clients at   *)
(* the start; a run can be terminated at any point and the file can be     *)
(* modified at any time.                                                   *)
(***************************************************************************)
FileSizes == {MinPartSize + 1, MinPartSize * MaxPartCount - 1}

Init ==
    /\ InitProgram
    /\ uploads \in SessionLists(MaxInitSessions, {<<>>})
    /\ objects \in {{}, {DestKey}}
    /\ file_size \in FileSizes
    /\ file_changed = FALSE
    /\ built_from = {}

Start ==
    \E a \in UploadArgs({"", "u1", FreshId(1)}, {None, Some(MinPartSize + 1)}) :
        runs < MaxRuns /\ Construct(a)

Next ==
    \/ Start
    \/ IsExistingInS3
    \/ CheckExistingUploads
    \/ LoadPartsFirst
    \/ LoadPartsNext
    \/ \E answer \in Answers : Prompt(answer)
    \/ ContinueUpload
    \/ CreateMultipartUpload
    \/ UploadPart
    \/ FinalizeUpload
    \/ Crash
    \/ \E n \in FileSizes : FileChange(n)

Spec == Init /\ [][Next]_vars

(***************************************************************************)
(* SpecPages: the part of SpecResume up to the end of                      *)
(* check_existing_uploads, for one file size.  The program is sequential   *)
(* and blocking: a run that can take its next step takes it.               *)
(***************************************************************************)
InitPages ==
    /\ InitResume
    /\ file_size = MinPartSize + 1

NextPages ==
    \/ StartResume
    \/ IsExistingInS3
    \/ CheckExistingUploads
    \/ LoadPartsFirst
    \/ LoadPartsNext

SpecPages ==
    /\ InitPages
    /\ [][NextPages]_vars
    /\ WF_vars(LoadPartsFirst)
    /\ WF_vars(LoadPartsNext)

(***************************************************************************)
(* SpecAbort: abort runs, one after the other, against a store that holds  *)
(* sessions of the destination key and of another key.  A command line of  *)
(* the abort sub-command ends in _upload_file; abort is reached on an      *)
(* uploader constructed with a namespace that also carries part_size.  A   *)
(* single abort without --upload_id is left out: what the store does with  *)
(* an empty UploadId is not in the source.                                 *)
(***************************************************************************)
AbortIds == {""} \cup {"u" \o ToString(i) : i \in 1..(MaxInitSessions + 1)}

\* The namespaces parse_args makes of the abort sub-command.
AbortArgs ==
    {a \in [operation : {"abort"}, all : BOOLEAN, list : BOOLEAN, upload_id : AbortIds] :
        a.all \/ a.list \/ a.upload_id # ""}

\* The same with a part_size, as given to S3MultipartUploader.
AbortArgsWithPartSize ==
    {a \in [operation : {"abort"}, all : BOOLEAN, list : BOOLEAN, upload_id : AbortIds,
            part_size : {None, Some(MinPartSize - 1)}] :
        a.all \/ a.list \/ a.upload_id # ""}

InitAbort ==
    /\ InitProgram
    /\ uploads \in SessionLists(MaxInitSessions, {<<>>, <<Part(1, MinPartSize)>>})
    /\ objects = {}
    /\ file_size = MinPartSize + 1
    /\ file_changed = FALSE
    /\ built_from = {}

StartAbort ==
    \E a \in AbortArgsWithPartSize : runs < MaxRuns /\ Construct(a)

NextAbort ==
    \/ StartAbort
    \/ \E a \in AbortArgs : runs < MaxRuns /\ UploadFileWithoutPartSize(a)
    \/ Abort

SpecAbort == InitAbort /\ [][NextAbort]_vars

(***************************************************************************)
(*                              The claims                                 *)
(***************************************************************************)

\* n is the ceiling of a / b, for b > 0.
IsCeil(n, a, b) == n * b >= a /\ (n - 1) * b < a

\* The SendChunk calls of the run, in the order issued.
Sends == SelectSeq(calls, LAMBDA c : c.op = "SendChunk")

\* The run issued the call.
Issued(op) == \E k \in 1..Len(calls) : calls[k].op = op

\* The run continues the session it found, past the sanity check.
Resumed == match # None /\ upload_id = match[1]

(***************************************************************************)
(* C5 (SpecPlan).  The byte ranges the transfer computes for the part      *)
(* indices 0..part_count-1 partition [0, filesize): the first starts at 0, *)
(* each next one starts one byte after the one before ends, none is empty, *)
(* the last ends at filesize - 1 and the sizes sum to filesize.  With the  *)
(* limits of the source a file of 12,000,000 bytes without --part-size     *)
(* gets parts of 5,242,880 bytes, 3 parts, the last of                     *)
(* 12,000,000 mod 5,242,880 bytes.                                         *)
(***************************************************************************)
C5_RangesPartition ==
    /\ \A k \in 1..Len(ranges) :
          /\ ranges[k].start = (IF k = 1 THEN 0 ELSE ranges[k - 1].end + 1)
          /\ ranges[k].start <= ranges[k].end
          /\ ranges[k].size = ranges[k].end - ranges[k].start + 1
    /\ pc = "returned" => Len(ranges) = part_count
    /\ (runs >= 1 /\ Len(ranges) = part_count) =>
          /\ SumSizes(ranges) = filesize
          /\ part_count > 0 => ranges[part_count].end = filesize - 1
    /\ LET p == DeterminePartCount(12000000, None, MAX_ALLOWED_PART_COUNT_S3,
                                   MIN_REQUIRED_PART_SIZE_S3)
       IN  /\ p.part_size_in_bytes = 5242880
           /\ p.part_count = 3
           /\ ~p.exit1
           /\ StartOffset(0, p.part_size_in_bytes, 12000000) = 0
           /\ EndOffset(2, p.part_size_in_bytes, 12000000) = 11999999
           /\ ThisPartSize(2, p.part_size_in_bytes, 12000000) = 12000000 % 5242880

\* A finished upload of three parts whose last part is shorter than the others.
C5_Witness ==
    /\ pc = "returned"
    /\ Len(ranges) = 3
    /\ ranges[3].size < part_size_in_bytes
    /\ Issued("FinalizeSession")

(***************************************************************************)
(* C6 (SpecPlan).  With an explicit part size S >= the minimum the plan    *)
(* has part size S and part count ceil(F / S).  Without one the part size  *)
(* is max(ceil(F / maximum count), minimum size), it is at least the       *)
(* minimum, the count is at most the maximum, and the planner lets the     *)
(* plan through.  Every plan the planner lets through has part size >= the *)
(* minimum, count <= the maximum and count = ceil(F / part size).          *)
(***************************************************************************)
C6_PlanInvariant ==
    runs >= 1 =>
        LET a == args.part_size
            F == filesize
            S == part_size_in_bytes
            N == part_count
        IN  /\ (a # None /\ a[1] >= MinPartSize) => (S = a[1] /\ IsCeil(N, F, S))
            /\ a = None =>
                  /\ S >= MinPartSize
                  /\ S * MaxPartCount >= F
                  /\ S = MinPartSize \/ (S - 1) * MaxPartCount < F
                  /\ N <= MaxPartCount
                  /\ pc # "exit1"
            /\ pc # "exit1" =>
                  /\ S >= MinPartSize
                  /\ N <= MaxPartCount
                  /\ IsCeil(N, F, S)

\* A plan without --part-size whose part size is above the minimum: the file
\* does not fit in the maximum count of minimum-size parts.
C6_Witness ==
    /\ runs >= 1
    /\ args.part_size = None
    /\ part_size_in_bytes > MinPartSize
    /\ part_count = MaxPartCount
    /\ pc = "returned"

(***************************************************************************)
(* C7 (SpecPlan), as claimed.  The planner ends the process with exit(1)   *)
(* exactly when the user gave a part size below the minimum (0 and         *)
(* negative sizes included) or the plan has more parts than the maximum.   *)
(***************************************************************************)
C7_ConfigErrorExactly ==
    runs >= 1 =>
        LET a == args.part_size
            F == filesize
            S == part_size_in_bytes
        IN  (pc = "exit1" /\ calls = <<>>)
                <=> \/ a # None /\ a[1] < MinPartSize
                    \/ S > 0 /\ MaxPartCount * S < F

\* The part numbers of the listing are 1..Len(listing), each once.
DenseNumbers(listing) ==
    \A n \in 1..Len(listing) :
        Cardinality({i \in 1..Len(listing) : listing[i].number = n}) = 1

\* Every part but the one with the highest number has the plan's part size.
FullSizesBeforeLast(listing, psize) ==
    \A i \in 1..Len(listing) :
        listing[i].number < Len(listing) => listing[i].size = psize

(***************************************************************************)
(* C2 (SpecResume).  _continue_upload accepts the listed parts exactly     *)
(* when, sorted by number, the part at 0-based index i has number i + 1    *)
(* (the numbers are 1..n, each once) and every part but the last of the    *)
(* sorted sequence has the plan's part size; otherwise the process ends    *)
(* with exit(3).                                                           *)
(***************************************************************************)
C2_ValidatorAcceptsExactly ==
    /\ pc = "exit3" =>
          ~(DenseNumbers(parts) /\ FullSizesBeforeLast(parts, part_size_in_bytes))
    /\ Resumed =>
          (DenseNumbers(parts) /\ FullSizesBeforeLast(parts, part_size_in_bytes))

\* The accepted parts 1, 2, 4 are refused with exit(3).
C2_Witness ==
    /\ pc = "exit3"
    /\ Len(parts) = 3
    /\ parts[1].number = 1 /\ parts[1].size = part_size_in_bytes
    /\ parts[2].number = 2 /\ parts[2].size = part_size_in_bytes
    /\ parts[3].number = 4

(***************************************************************************)
(* C3 (SpecResume).  A run that continues a session with N accepted parts  *)
(* sends the parts N+1, N+2, ... in this order, each after the             *)
(* acknowledgement of the one before was recorded, none of 1..N, and has   *)
(* sent all of N+1..part_count when it completes the upload.               *)
(***************************************************************************)
C3_ResumeSendsTheRest ==
    Resumed =>
        LET N == Len(parts)
        IN  /\ \A k \in 1..Len(Sends) : Sends[k].arg[1] = N + k
            /\ Len(uploaded_parts) = Len(Sends)
            /\ \A k \in 1..Len(Sends) : uploaded_parts[k].number = Sends[k].arg[1]
            /\ Len(Sends) <= Max(0, part_count - N)
            /\ Issued("FinalizeSession") => Len(Sends) = Max(0, part_count - N)

\* All parts but the last were accepted: the run sends the last part alone.
C3_Witness ==
    /\ Resumed
    /\ pc = "returned"
    /\ part_count = 3
    /\ Len(parts) = 2
    /\ Len(Sends) = 1
    /\ Sends[1].arg[1] = 3
    /\ Issued("FinalizeSession")

(***************************************************************************)
(* C4 (Spec), as claimed.  In every complete_multipart_upload request all  *)
(* parts but the last of the list have the plan's part size.               *)
(***************************************************************************)
C4_FinalizedSizes ==
    Issued("FinalizeSession") =>
        \A i \in 1..(Len(final_parts) - 1) : final_parts[i].size = part_size_in_bytes

(***************************************************************************)
(* C8 (SpecResume).  However the store cuts the part listing of the        *)
(* session into pages, check_existing_uploads returns the listing itself:  *)
(* the same parts in the same order.  While pages remain, the parts        *)
(* collected are the listing up to the marker.                             *)
(***************************************************************************)
C8_PagesMerge ==
    /\ pc = "load_more" =>
          LET listing == uploads[IndexOf(match[1])].Parts
          IN  /\ Len(parts) < Len(listing)
              /\ parts = SubSeq(listing, 1, Len(parts))
    /\ pc \in {"prompt", "continue_upload"} =>
          parts = uploads[IndexOf(match[1])].Parts

\* A listing of three parts that arrived on three pages.
C8_Witness ==
    /\ pc = "prompt"
    /\ Len(parts) = 3
    /\ Len(SelectSeq(calls, LAMBDA c : c.op = "ListChunks")) = 3

\* The session was created by a run with the plan of this run, only such runs
\* sent parts to it, and the file is as it was then.
BuiltFromThisPlan(id) == <<id, filesize, part_size_in_bytes>> \in built_from

\* The sessions of the destination key.
SessionsOfKey == {i \in 1..Len(uploads) : uploads[i].Key = DestKey}

(***************************************************************************)
(* C1 (Spec).  Terminating a run issues no call and leaves the store as it *)
(* is.  A later run with the same plan on the unchanged file, of at least  *)
(* one part, finds the session when it is the only one of the key; when    *)
(* the user continues, the sanity check passes, no read fails, and the run *)
(* completes the upload after sending exactly the parts the session had    *)
(* not accepted, with a request that lists the parts 1..part_count, whose  *)
(* sizes sum to the size of the file.                                      *)
(***************************************************************************)
C1_CrashResume ==
    [][/\ (pc # "killed" /\ pc' = "killed") =>
              (uploads' = uploads /\ objects' = objects /\ calls' = calls)
       /\ (/\ pc = "check_existing"
           /\ pc' \notin {"check_existing", "killed"}
           /\ args.upload_id = ""
           /\ Cardinality(SessionsOfKey) = 1) =>
              /\ pc' = "load_parts"
              /\ \E i \in SessionsOfKey : match' = Some(uploads[i].UploadId)
       /\ (match # None /\ BuiltFromThisPlan(match[1]) /\ part_count >= 1) =>
              /\ pc = "continue_upload" => pc' # "exit3"
              /\ (pc = "upload_parts" /\ Resumed) => pc' # "raised"
              /\ (pc = "upload_parts" /\ Resumed /\ pc' = "returned") =>
                    LET request == calls'[Len(calls')]
                    IN  /\ request.op = "FinalizeSession"
                        /\ request.id = match[1]
                        /\ Len(request.arg) = part_count
                        /\ \A k \in 1..part_count : request.arg[k].PartNumber = k
                        /\ Len(final_parts') = part_count
                        /\ SumSizes(final_parts') = filesize
                        /\ ~warned'
                        /\ {Sends[k].arg[1] : k \in 1..Len(Sends)}
                             = (1..part_count) \ {parts[i].number : i \in 1..Len(parts)}
                        /\ Len(Sends) = part_count - Len(parts)
      ]_vars

\* The second run completes the upload the first, terminated, run created,
\* after sending the parts that run had not sent.
C1_Witness ==
    /\ runs = 2
    /\ pc = "returned"
    /\ Resumed
    /\ upload_id = FreshId(1)
    /\ args.upload_id = ""
    /\ Len(existing_parts) >= 1
    /\ Len(uploaded_parts) >= 1
    /\ Issued("FinalizeSession")
    /\ SumSizes(final_parts) = filesize
    /\ ~file_changed

\* A run completes an upload whose first part has another size than the plan's.
C4_Witness ==
    /\ Issued("FinalizeSession")
    /\ Len(final_parts) >= 2
    /\ final_parts[1].size # part_size_in_bytes

(***************************************************************************)
(* C9 (Spec).  When the destination object exists, upload returns after    *)
(* the head_object probe: that call is the only one of the run, the store  *)
(* is left as it is, and the run issues nothing afterwards.                *)
(***************************************************************************)
C9_ExistingObjectSkips ==
    [][/\ (pc = "upload" /\ DestKey \in objects /\ pc' # pc) =>
              /\ pc' \in {"returned", "killed"}
              /\ uploads' = uploads
              /\ objects' = objects
              /\ pc' = "returned" => (Len(calls') = 1 /\ calls'[1].op = "HeadObject")
       /\ (pc = "returned" /\ runs' = runs) => (calls' = calls /\ uploads' = uploads)
      ]_vars

\* The object exists and so does a session of the key: the run ends after the
\* probe.
C9_Witness ==
    /\ pc = "returned"
    /\ Len(calls) = 1
    /\ calls[1].op = "HeadObject"
    /\ DestKey \in objects
    /\ SessionsOfKey # {}

(***************************************************************************)
(* C10 (Spec).  What check_existing_uploads does is fixed by the number of *)
(* listed sessions of the destination key that, with --upload_id, have     *)
(* that id: none with an id, exit(1); none without, no session (a new      *)
(* upload follows, without any list_parts call); more than one, exit(1);   *)
(* one, that session, whose key is the destination key, and then its       *)
(* listed parts.                                                           *)
(***************************************************************************)
C10_FindSession ==
    [][/\ (pc = "check_existing" /\ pc' \notin {"check_existing", "killed"}) =>
              LET id == args.upload_id
                  hits == {i \in SessionsOfKey : id = "" \/ uploads[i].UploadId = id}
              IN  /\ (hits = {} /\ id # "") => pc' = "exit1"
                  /\ (hits = {} /\ id = "") =>
                        /\ pc' = "create"
                        /\ match' = None
                        /\ \A k \in 1..Len(calls') : calls'[k].op # "ListChunks"
                  /\ Cardinality(hits) > 1 => pc' = "exit1"
                  /\ Cardinality(hits) = 1 =>
                        /\ pc' = "load_parts"
                        /\ \E i \in hits : match' = Some(uploads[i].UploadId)
                  /\ uploads' = uploads
       /\ (pc # "prompt" /\ pc' = "prompt") =>
              /\ IndexOf(match[1]) \in SessionsOfKey
              /\ parts' = uploads[IndexOf(match[1])].Parts
      ]_vars

\* --upload_id names a session of another key: the run ends with exit(1)
\* after listing the sessions.
C10_Witness ==
    /\ pc = "exit1"
    /\ Len(calls) = 2
    /\ calls[2].op = "ListSessions"
    /\ args.upload_id # ""
    /\ \E i \in 1..Len(uploads) :
          uploads[i].UploadId = args.upload_id /\ uploads[i].Key = OtherKey

\* The calls that change the remote store.
Mutating == {"CreateSession", "SendChunk", "FinalizeSession", "AbortSession"}

(***************************************************************************)
(* C11 (Spec).  A run that ends with exit(1) or exit(3) has issued no      *)
(* create_multipart_upload, upload_part, complete_multipart_upload or      *)
(* abort_multipart_upload call, and the store is as it was before the run: *)
(* the step that ends the run changes neither the sessions nor the         *)
(* objects, and every step that changes them issues one of these calls.    *)
(***************************************************************************)
C11_FailuresBeforeMutation ==
    [][/\ (uploads' # uploads \/ objects' # objects) =>
              /\ Len(calls') = Len(calls) + 1
              /\ calls'[Len(calls')].op \in Mutating
       /\ pc' \in {"exit1", "exit3"} =>
              /\ \A k \in 1..Len(calls') : calls'[k].op \notin Mutating
              /\ uploads' = uploads
              /\ objects' = objects
      ]_vars

\* The second run refuses, with exit(3), the session the first run sent parts
\* to under another part size; the session keeps its parts.
C11_Witness ==
    /\ pc = "exit3"
    /\ runs = 2
    /\ match # None
    /\ Len(uploads[IndexOf(match[1])].Parts) >= 2
    /\ Issued("ListChunks")

\* The session the run sends parts to is open.
SessionOpen == \E i \in 1..Len(uploads) : uploads[i].UploadId = upload_id

(***************************************************************************)
(* C12 (Spec).  When the file no longer holds the last byte of the range   *)
(* of the part being read, the round raises: no upload_part call is issued *)
(* for this part, the store and the parts recorded stay as they are, the   *)
(* session stays open with every part the run has sent, and the run        *)
(* issues nothing afterwards: no later part, no                            *)
(* complete_multipart_upload, no second read.                              *)
(***************************************************************************)
C12_ShortReadFails ==
    [][/\ (Len(ranges') = Len(ranges) + 1 /\ file_size <= ranges'[Len(ranges')].end) =>
              /\ pc' = "raised"
              /\ calls' = calls
              /\ uploads' = uploads
              /\ objects' = objects
              /\ uploaded_parts' = uploaded_parts
              /\ SessionOpen
              /\ \A k \in 1..Len(uploaded_parts) :
                    \E j \in 1..Len(uploads[IndexOf(upload_id)].Parts) :
                        uploads[IndexOf(upload_id)].Parts[j] = uploaded_parts[k]
       /\ (pc = "raised" /\ runs' = runs) =>
              /\ pc' = "raised"
              /\ calls' = calls
              /\ ranges' = ranges
              /\ uploads' = uploads
              /\ objects' = objects
       /\ pc' = "raised" => ~\E k \in 1..Len(calls') : calls'[k].op = "FinalizeSession"
      ]_vars

\* The file shrank after the run had sent a part: the read of the next part
\* is short, the run has raised and the session holds the part sent.
C12_Witness ==
    /\ pc = "raised"
    /\ file_size < filesize
    /\ Len(uploaded_parts) >= 1
    /\ Len(ranges) = Len(uploaded_parts) + 1
    /\ file_size <= ranges[Len(ranges)].end
    /\ SessionOpen
    /\ Len(uploads[IndexOf(upload_id)].Parts) >= 1

\* The complete_multipart_upload calls of the run.
Finalizes == SelectSeq(calls, LAMBDA c : c.op = "FinalizeSession")

(***************************************************************************)
(* C13 (Spec).  _finalize_upload never ends the run because of the sizes:  *)
(* once every part of a plan of at least one part is sent, the next step   *)
(* of the run completes the upload.  The step issues                       *)
(* complete_multipart_upload once, the only such call of the run, for the  *)
(* session, with every existing and every uploaded part, and the store     *)
(* completes the upload; the message about the mismatch is logged exactly  *)
(* when the sizes of these parts do not sum to the recorded file size.     *)
(***************************************************************************)
C13_MismatchWarnsAndFinalizes ==
    [][/\ (/\ pc = "upload_parts"
           /\ part_index >= part_count
           /\ part_count >= 1
           /\ pc' \notin {"upload_parts", "killed"}) => pc' = "returned"
       /\ (pc = "upload_parts" /\ pc' = "returned") =>
              LET listed == existing_parts \o uploaded_parts
                  request == calls'[Len(calls')]
              IN  /\ Len(calls') = Len(calls) + 1
                  /\ request.op = "FinalizeSession"
                  /\ request.id = upload_id
                  /\ Len(request.arg) = Len(listed)
                  /\ \A k \in 1..Len(listed) :
                        request.arg[k].PartNumber = listed[k].number
                  /\ Len(SelectSeq(calls', LAMBDA c : c.op = "FinalizeSession")) = 1
                  /\ warned' <=> (SumSizes(listed) # filesize)
                  /\ DestKey \in objects'
                  /\ ~\E i \in 1..Len(uploads') : uploads'[i].UploadId = upload_id
      ]_vars

\* An upload is completed with parts whose sizes sum to less than the size
\* of the file, and the mismatch is logged.
C13_Witness ==
    /\ pc = "returned"
    /\ Len(Finalizes) = 1
    /\ warned
    /\ SumSizes(final_parts) < filesize
    /\ DestKey \in objects

(***************************************************************************)
(* C14 (SpecResume).  Every complete_multipart_upload request, of a new    *)
(* upload or of a continued one and whatever the order of the listed       *)
(* parts, lists the parts by ascending number from 1 without a gap: the    *)
(* k-th entry has PartNumber k, and its ETag is the one the store holds    *)
(* for the part of that number in the session.                             *)
(***************************************************************************)
C14_FinalizeAscendingFromOne ==
    [][(pc = "upload_parts" /\ pc' = "returned") =>
          LET request == calls'[Len(calls')]
              held == uploads[IndexOf(upload_id)].Parts
          IN  /\ request.op = "FinalizeSession"
              /\ \A k \in 1..Len(request.arg) :
                    /\ request.arg[k].PartNumber = k
                    /\ \E j \in 1..Len(held) :
                          /\ held[j].number = k
                          /\ held[j].etag = request.arg[k].ETag
      ]_vars

\* A continued upload whose parts were listed as 2, 1 is completed with the
\* parts 1, 2, 3.
C14_Witness ==
    /\ pc = "returned"
    /\ Resumed
    /\ Len(parts) = 2
    /\ parts[1].number = 2
    /\ parts[2].number = 1
    /\ Len(Finalizes) = 1
    /\ Len(Finalizes[1].arg) = 3
    /\ Finalizes[1].arg[1].PartNumber = 1
    /\ Len(uploaded_parts) = 1

\* The abort_multipart_upload calls of the run.
Aborts == SelectSeq(calls, LAMBDA c : c.op = "AbortSession")

(***************************************************************************)
(* C15 (SpecAbort), as claimed.  With --list, whatever --all and           *)
(* --upload_id are, abort issues no abort_multipart_upload call and leaves *)
(* the sessions of the store as they are.                                  *)
(***************************************************************************)
C15_ListNeverCancels ==
    [][(pc = "abort" /\ args.list /\ pc' # pc) =>
          /\ \A k \in 1..Len(calls') : calls'[k].op # "AbortSession"
          /\ uploads' = uploads
      ]_vars

\* abort with --list and --all has returned after aborting a session.
C15_Witness ==
    /\ pc = "returned"
    /\ args.operation = "abort"
    /\ args.list
    /\ args.all
    /\ Len(Aborts) >= 1

(***************************************************************************)
(* C16 (SpecAbort).  With --all and without --list, abort lists the        *)
(* sessions and then issues abort_multipart_upload once for each listed    *)
(* session of the destination key and for no other; the store is left with *)
(* the sessions of the other keys.  With neither --all nor --list it       *)
(* issues one call in all: abort_multipart_upload for --upload_id.         *)
(***************************************************************************)
C16_AbortsExactly ==
    [][(pc = "abort" /\ pc' # pc) =>
          LET issued == SelectSeq(calls', LAMBDA c : c.op = "AbortSession")
          IN  /\ (args.all /\ ~args.list) =>
                    /\ calls'[1].op = "ListSessions"
                    /\ Len(calls') = 1 + Len(issued)
                    /\ \A i \in 1..Len(uploads) :
                          Cardinality({k \in 1..Len(issued) :
                                          issued[k].id = uploads[i].UploadId})
                              = (IF uploads[i].Key = DestKey THEN 1 ELSE 0)
                    /\ Len(issued) = Cardinality(SessionsOfKey)
                    /\ \A i \in 1..Len(uploads) :
                          uploads[i].Key # DestKey =>
                              \E j \in 1..Len(uploads') : uploads'[j] = uploads[i]
                    /\ \A j \in 1..Len(uploads') : uploads'[j].Key # DestKey
              /\ (~args.all /\ ~args.list) =>
                    calls' = <<Call("AbortSession", args.upload_id, None)>>
      ]_vars

\* abort --all has aborted the session of the key and left the one of the
\* other key.
C16_Witness ==
    /\ pc = "returned"
    /\ args.operation = "abort"
    /\ args.all
    /\ ~args.list
    /\ Len(Aborts) = 1
    /\ Len(uploads) = 1
    /\ uploads[1].Key = OtherKey
    /\ Len(uploads[1].Parts) = 1

\* The listing names a part before one of a lower number.
OutOfOrder(listing) ==
    \E i \in 1..(Len(listing) - 1) : listing[i].number > listing[i + 1].number

(***************************************************************************)
(* C17 (SpecResume), as claimed.  A session whose parts were listed out of *)
(* ascending order of their numbers is never continued: the sanity check   *)
(* ends the run with exit(3).                                              *)
(***************************************************************************)
C17_OutOfOrderRejected ==
    [][(pc = "continue_upload" /\ OutOfOrder(parts) /\ pc' # pc) => pc' = "exit3"]_vars

(***************************************************************************)
(* C17 (SpecResume), amended.  The order of the listing decides nothing:   *)
(* _continue_upload sorts the parts by number first.  A listing out of     *)
(* ascending order is refused with exit(3) exactly when its numbers are    *)
(* not 1..N, each once, or a part other than the one of the highest number *)
(* has another size than the plan's; otherwise the session is continued    *)
(* with the parts in ascending order, from part N + 1.                     *)
(***************************************************************************)
C17_OutOfOrderSortedFirst ==
    [][(pc = "continue_upload" /\ OutOfOrder(parts) /\ pc' # pc) =>
          /\ pc' = "exit3" <=>
                ~(DenseNumbers(parts) /\ FullSizesBeforeLast(parts, part_size_in_bytes))
          /\ pc' # "exit3" =>
                /\ pc' = "upload_parts"
                /\ upload_id' = match[1]
                /\ Len(existing_parts') = Len(parts)
                /\ \A k \in 1..Len(parts) : existing_parts'[k].number = k
                /\ start_index' = Len(parts)
      ]_vars

\* The parts were listed as 2, 1 and the run continues the session from
\* part 3.
C17_Witness ==
    /\ pc = "upload_parts"
    /\ Resumed
    /\ Len(parts) = 2
    /\ parts[1].number = 2
    /\ parts[2].number = 1
    /\ start_index = 2
    /\ part_index = 2
    /\ existing_parts[1].number = 1

\* The list_parts calls among the calls c.
ListCalls(c) == SelectSeq(c, LAMBDA x : x.op = "ListChunks")

\* The position a marker names.
Position(marker) == IF marker = None THEN 0 ELSE marker[1]

(***************************************************************************)
(* C18 (SpecPages).  The first list_parts call of a run carries no         *)
(* PartNumberMarker; every later one carries the NextPartNumberMarker of   *)
(* the page before, and is issued only when that page was truncated.       *)
(* After a truncated page the next step of the run is the next call, and   *)
(* after a page that is not truncated the run issues no list_parts call.   *)
(* With a store whose truncated pages move the marker forward, the calls   *)
(* are at most as many as the parts of the listing (one for an empty       *)
(* listing), and the loop ends: the run of a found session reaches the     *)
(* end of check_existing_uploads.                                          *)
(***************************************************************************)
C18_PagesInSequence ==
    /\ [][/\ (Len(ListCalls(calls')) = Len(ListCalls(calls)) + 1) =>
               LET request == calls'[Len(calls')]
               IN  /\ request.op = "ListChunks"
                   /\ request.id = match[1]
                   /\ ListCalls(calls) = <<>> => request.arg = None
                   /\ ListCalls(calls) # <<>> =>
                         (is_truncated /\ request.arg = next_part_number_marker)
                   /\ is_truncated' =>
                         Position(next_part_number_marker') > Position(request.arg)
                   /\ pc' = IF is_truncated' THEN "load_more" ELSE "prompt"
                   /\ Len(ListCalls(calls')) <=
                         Max(1, Len(uploads[IndexOf(match[1])].Parts))
          /\ (pc = "load_more" /\ pc' # pc) =>
               Len(ListCalls(calls')) = Len(ListCalls(calls)) + 1
          /\ (pc = "prompt" /\ runs' = runs) => ListCalls(calls') = ListCalls(calls)
          /\ pc = "load_more" => is_truncated
          /\ pc = "prompt" => ~is_truncated
         ]_vars
    /\ (pc = "load_parts") ~> (pc = "prompt")

\* A listing of three parts came on two pages: the second call carries the
\* marker of the first page.
C18_Witness ==
    /\ pc = "prompt"
    /\ Len(parts) = 3
    /\ Len(ListCalls(calls)) = 2
    /\ ListCalls(calls)[1].arg = None
    /\ ListCalls(calls)[2].arg # None
    /\ ~is_truncated

\* The create_multipart_upload calls of the run.
Creates == SelectSeq(calls, LAMBDA c : c.op = "CreateSession")

(***************************************************************************)
(* C19 (SpecPlan), as claimed.  With no object and no session for the key, *)
(* the file unchanged and every call answered, an upload of a file of any  *)
(* size >= 0 whose plan is within the limits, a file of 0 bytes with 0     *)
(* parts included, ends by returning, after one create_multipart_upload,   *)
(* the upload_part calls for the parts 1..part_count in this order and one *)
(* complete_multipart_upload for the session created.                      *)
(***************************************************************************)
C19_FreshUploadCompletes ==
    (runs >= 1 /\ pc \in Stopped /\ pc # "exit1") =>
        /\ pc = "returned"
        /\ Len(Creates) = 1
        /\ Len(Sends) = part_count
        /\ \A k \in 1..Len(Sends) :
              Sends[k].id = Creates[1].id /\ Sends[k].arg[1] = k
        /\ Len(Finalizes) = 1
        /\ Finalizes[1].id = Creates[1].id
        /\ calls[Len(calls)].op = "FinalizeSession"

\* The upload of a file of 0 bytes has ended with an exception after
\* create_multipart_upload; the session stays open.
C19_Witness ==
    /\ pc = "raised"
    /\ filesize = 0
    /\ part_count = 0
    /\ Len(Creates) = 1
    /\ Finalizes = <<>>
    /\ SessionOpen

(***************************************************************************)
(* C20 (Spec), as claimed.  A run that continues a session, its sanity     *)
(* check passed, has at most part_count existing parts, and its            *)
(* complete_multipart_upload request lists part_count parts, with the      *)
(* numbers 1..part_count.                                                  *)
(***************************************************************************)
C20_NoMorePartsThanPlanned ==
    Resumed =>
        /\ Len(existing_parts) <= part_count
        /\ \A f \in 1..Len(Finalizes) :
              /\ Len(Finalizes[f].arg) = part_count
              /\ \A k \in 1..part_count : Finalizes[f].arg[k].PartNumber = k

\* A continued upload is completed with three parts under a plan of two.
C20_Witness ==
    /\ pc = "returned"
    /\ Resumed
    /\ part_count = 2
    /\ Len(existing_parts) = 3
    /\ uploaded_parts = <<>>
    /\ Len(Finalizes) = 1
    /\ Len(Finalizes[1].arg) = 3

(***************************************************************************)
(* C21 (Spec).  In an upload to a session the run created itself, a read   *)
(* that returns another number of bytes than the planned size of the part, *)
(* fewer because the file ends before the end of the range or more because *)
(* the file goes on after a part shorter than the part size, raises before *)
(* any call.  So when such a run completes the upload, the sizes of the    *)
(* parts it lists sum to the file size recorded by the constructor,        *)
(* however the file was modified meanwhile, and the message about the      *)
(* mismatch of sizes is logged only by runs that continue a session.       *)
(***************************************************************************)
C21_FreshUploadSumsToFileSize ==
    [][/\ (/\ Len(ranges') = Len(ranges) + 1
           /\ LET r == ranges'[Len(ranges')]
              IN  \/ file_size <= r.end
                  \/ file_size > r.end + 1 /\ r.size < part_size_in_bytes) =>
              /\ pc' = "raised"
              /\ calls' = calls
              /\ uploads' = uploads
       /\ (Finalizes' # <<>> /\ ~Resumed') =>
              /\ SumSizes(final_parts') = filesize'
              /\ Len(final_parts') = part_count'
              /\ ~warned'
       /\ warned' => Resumed'
      ]_vars

\* The file grew after the constructor read its size, and the run completed
\* the upload it created with parts that sum to the size recorded.
C21_Witness ==
    /\ pc = "returned"
    /\ ~Resumed
    /\ Len(Finalizes) = 1
    /\ Len(Creates) = 1
    /\ file_size > filesize
    /\ SumSizes(final_parts) = filesize
    /\ ~warned

\* The session of the id as the store holds it, <<>> when it holds none.
Held(ups, id) == SelectSeq(ups, LAMBDA u : u.UploadId = id)

(***************************************************************************)
(* C22 (Spec).  upload issues no abort_multipart_upload.  The session      *)
(* check_existing_uploads found is only changed by a run that continues    *)
(* it, and a run continues it only from _continue_upload, which is entered *)
(* only from the first question.  In every other run the session stays in  *)
(* the store with its parts and no upload_part or                          *)
(* complete_multipart_upload names it.  When the three questions are       *)
(* declined, or the second is answered with yes, the run ends without      *)
(* another call, having issued none that changes the store.  After the     *)
(* answer to restart, create_multipart_upload adds a session of the key    *)
(* with another id, both sessions are in the store while the parts are     *)
(* sent, and completing the new one leaves the old one open.               *)
(***************************************************************************)
C22_OnlyContinueTouchesTheSession ==
    [][/\ \A k \in 1..Len(calls') : calls'[k].op # "AbortSession"
       /\ (pc' = "continue_upload" /\ pc # pc') => pc = "prompt"
       /\ (Resumed' /\ ~Resumed) => pc = "continue_upload"
       /\ (match # None /\ ~Resumed' /\ runs' = runs) =>
              /\ Held(uploads, match[1]) # <<>>
              /\ Held(uploads', match[1]) = Held(uploads, match[1])
              /\ \A k \in 1..Len(calls') :
                    calls'[k].op \in Mutating => calls'[k].id # match[1]
       /\ (pc = "prompt" /\ pc' \in {"returned", "raised"}) =>
              /\ calls' = calls
              /\ uploads' = uploads
              /\ objects' = objects
              /\ \A k \in 1..Len(calls) : calls[k].op \notin Mutating
       /\ (pc \in {"returned", "raised"} /\ runs' = runs) =>
              (calls' = calls /\ uploads' = uploads)
       /\ (pc = "create" /\ match # None /\ pc' = "upload_parts") =>
              /\ calls' = Append(calls, Call("CreateSession", upload_id', None))
              /\ upload_id' # match[1]
              /\ Len(uploads') = Len(uploads) + 1
              /\ uploads'[Len(uploads')].Key = DestKey
              /\ uploads'[Len(uploads')].UploadId = upload_id'
       /\ (pc' = "upload_parts" /\ match # None /\ ~Resumed') =>
              Cardinality({i \in 1..Len(uploads') :
                  /\ uploads'[i].Key = DestKey
                  /\ uploads'[i].UploadId \in {match[1], upload_id'}}) = 2
      ]_vars

\* The second run found the session of the first with a part, was told to
\* restart, and has sent a part to the session it created: two sessions of
\* the key are open.
C22_Witness ==
    /\ pc = "upload_parts"
    /\ runs = 2
    /\ match = Some(FreshId(1))
    /\ upload_id = FreshId(2)
    /\ Len(Held(uploads, FreshId(1))) = 1
    /\ Len(Held(uploads, FreshId(1))[1].Parts) >= 1
    /\ Len(Held(uploads, FreshId(2))) = 1
    /\ Len(uploaded_parts) >= 1
    /\ Len(Creates) = 1

====
